---- MODULE Spec2Model ----
(***************************************************************************)
(* DataChannelObserver (data_channel_observer.cpp): three delivery         *)
(* handlers, OnStateChange, OnMessage and OnBufferedAmountChange, each     *)
(* running under std::lock_guard<std::mutex> on the observer's mutex,      *)
(* against application threads that set or clear the callback slots and a  *)
(* data channel whose state and buffered amount change underneath.         *)
(* Every handler is split at the points where another thread can run:      *)
(* the call, the acquisition of the mutex, the test of the slot, the query *)
(* of the channel, the invocation of the callback, the callback's return   *)
(* and the release of the mutex.                                           *)
(***************************************************************************)
EXTENDS Integers, Sequences, FiniteSets

(* ---- bounds ---- *)
MaxBufLen == 2        \* longest webrtc::DataBuffer delivered
MaxCalls == 3         \* calls (deliveries and registrations) per run

(* ---- program constants ---- *)
max_capacity == 16777216

NULL == 0                          \* an empty callback slot
NoThread == "none"                 \* the mutex is free
DeliveryThreads == {"d1", "d2"}    \* delivery threads of the transport library
AppThreads == {"app"}              \* the thread that registers listeners
Threads == DeliveryThreads \cup AppThreads
Callbacks == {1, 2}                \* the listener functions the application owns
Slots == Callbacks \cup {NULL}
Amounts == {0, 250}                \* buffered byte counts
ChannelIds == {7}

\* the buffers delivered: the first n bytes of 01 02 03 ..., n = 0..MaxBufLen
DataBuffer(n) == [i \in 1..n |-> i]
Buffers == {DataBuffer(n) : n \in 0..MaxBufLen}

(* ---- the two state enumerations and the cast between them ---- *)
StateNames == {"kConnecting", "kOpen", "kClosing", "kClosed"}
RtcDataState ==
  [kConnecting |-> 0, kOpen |-> 1, kClosing |-> 2, kClosed |-> 3]
ApiDataState ==
  [kConnecting |-> 0, kOpen |-> 1, kClosing |-> 2, kClosed |-> 3]

\* a cast that is off by one variant
apiStateShifted(rtcState) ==
  CHOOSE a \in StateNames : ApiDataState[a] = (RtcDataState[rtcState] + 1) % 4
\* (ApiDataState)rtcState: the public variant whose integer is rtcState's
apiStateFromRtcState(rtcState) ==
  CHOOSE a \in StateNames : ApiDataState[a] = RtcDataState[rtcState]

VARIABLES
  mutex,                \* the thread holding the mutex, or NoThread
  state_callback_,      \* the three callback slots
  message_callback_,
  buffering_callback_,
  data_channel_,        \* [state, id, buffered_amount] of the wrapped channel
  pc,                   \* pc[t]: where thread t is
  frame,                \* frame[t]: the call thread t is in, and its locals
  invoked,              \* invoked[k]: callback invocations of kind k so far
  found,                \* found[k]: deliveries of kind k whose test found a callback
  dropped,              \* dropped[k]: deliveries of kind k whose test found none
  ncalls,               \* calls started so far
  entered,              \* the OnMessage calls that hold the mutex and have neither
                        \* invoked nor dropped yet, in the order they acquired it
  received,             \* the payloads the message callback was handed, in order
  last_state            \* the state the state callback was handed last, or -1

vars == <<mutex, state_callback_, message_callback_, buffering_callback_,
          data_channel_, pc, frame, invoked, found, dropped, ncalls,
          entered, received, last_state>>
msglog == <<entered, received>>
slots == <<state_callback_, message_callback_, buffering_callback_>>

Kinds == {"state", "message", "buffering"}
NoFrame == [op |-> "none", arg |-> <<>>, tested |-> NULL, q |-> <<>>,
            cb |-> NULL, args |-> <<>>, n |-> 0]
CallFrame(o, a) == [NoFrame EXCEPT !.op = o, !.arg = a]

Init ==
  /\ mutex = NoThread
  /\ state_callback_ = NULL
  /\ message_callback_ = NULL
  /\ buffering_callback_ = NULL
  /\ \E id \in ChannelIds :
       data_channel_ = [state |-> "kConnecting", id |-> id,
                        buffered_amount |-> 0]
  /\ pc = [t \in Threads |-> "idle"]
  /\ frame = [t \in Threads |-> NoFrame]
  /\ invoked = [k \in Kinds |-> 0]
  /\ found = [k \in Kinds |-> 0]
  /\ dropped = [k \in Kinds |-> 0]
  /\ ncalls = 0
  /\ entered = <<>>
  /\ received = <<>>
  /\ last_state = -1

(* ---- helpers shared by the three handlers ---- *)
IsDelivery(t) ==
  frame[t].op \in {"OnStateChange", "OnMessage", "OnBufferedAmountChange"}

\* an acquisition that does not wait for the holder
LockGuardNoWait(t) == mutex' = t
\* std::lock_guard<std::mutex> lock(mutex): blocks until the mutex is free
LockGuard(t) == mutex = NoThread /\ mutex' = t

\* a guard that is released only on the path that invoked the callback
UnlockGuardLeak(t) == mutex' = IF frame[t].n > 0 THEN NoThread ELSE mutex
\* ~lock_guard at the handler's return
UnlockGuard(t) == mutex' = NoThread

\* a handler that does not test its slot
IsEmptyNever(callback) == FALSE
\* !callback_
IsEmpty(callback) == callback = NULL

\* the two arguments in the wrong order
StateArgsSwapped(apiState, id) == <<id, ApiDataState[apiState]>>
\* state_callback_((int)apiState, data_channel_->id())
StateArgs(apiState, id) == <<ApiDataState[apiState], id>>

\* a length that leaves out the last byte
MessageArgsShort(buffer) ==
  <<buffer, IF Len(buffer) = 0 THEN 0 ELSE Len(buffer) - 1>>
\* message_callback_(buffer.data.data(), buffer.data.size())
MessageArgs(buffer) == <<buffer, Len(buffer)>>

\* the capacity argument replaced by the current amount
BufferingArgsNoCap(previous_amount, current_amount) ==
  <<previous_amount, current_amount, current_amount>>
\* buffering_callback_(previous_amount, current_amount, max_capacity)
BufferingArgs(previous_amount, current_amount) ==
  <<previous_amount, current_amount, max_capacity>>

Goto(t, label) == pc' = [pc EXCEPT ![t] = label]

\* the sequence q without thread t
Without(q, t) == SelectSeq(q, LAMBDA u : u # t)

(* ---- the library calls a handler ---- *)
Call(t, op, arg) ==
  /\ pc[t] = "idle"
  /\ ncalls < MaxCalls
  /\ ncalls' = ncalls + 1
  /\ Goto(t, "lock")
  /\ frame' = [frame EXCEPT ![t] = CallFrame(op, arg)]
  /\ UNCHANGED <<mutex, slots, data_channel_, invoked, found, dropped,
                 msglog, last_state>>

OnStateChange_Call(t) ==
  /\ t \in DeliveryThreads
  /\ Call(t, "OnStateChange", <<>>)

OnMessage_Call(t, buffer) ==
  /\ t \in DeliveryThreads
  /\ Call(t, "OnMessage", buffer)

OnBufferedAmountChange_Call(t, previous_amount) ==
  /\ t \in DeliveryThreads
  /\ Call(t, "OnBufferedAmountChange", <<previous_amount>>)

\* line 33, 41, 49: the guard is taken
Lock(t) ==
  /\ pc[t] = "lock"
  /\ IsDelivery(t)
  /\ LockGuard(t)
  /\ Goto(t, "test")
  /\ entered' = IF frame[t].op = "OnMessage" THEN Append(entered, t) ELSE entered
  /\ UNCHANGED <<slots, data_channel_, frame, invoked, found, dropped, ncalls,
                 received, last_state>>

\* if (!callback_) return; with the history of what the test saw
Test(t, kind, callback, next) ==
  /\ pc[t] = "test"
  /\ IF IsEmpty(callback) THEN Goto(t, "unlock") ELSE Goto(t, next)
  /\ frame' = [frame EXCEPT ![t].tested = callback]
  /\ found' = [found EXCEPT ![kind] = @ + (IF callback # NULL THEN 1 ELSE 0)]
  /\ dropped' =
       [dropped EXCEPT ![kind] = @ + (IF callback = NULL THEN 1 ELSE 0)]
  /\ entered' = IF kind = "message" /\ callback = NULL
                 THEN Without(entered, t) ELSE entered
  /\ UNCHANGED <<mutex, slots, data_channel_, invoked, ncalls, received,
                 last_state>>

\* a call that unregisters the listener it has called
InvokeOnce(t, kind, callback, args) ==
  /\ pc[t] = "call"
  /\ Goto(t, "in_cb")
  /\ frame' = [frame EXCEPT ![t].cb = callback, ![t].args = args,
                            ![t].n = @ + 1]
  /\ invoked' = [invoked EXCEPT ![kind] = @ + 1]
  /\ entered' = IF kind = "message" THEN Without(entered, t) ELSE entered
  /\ received' = IF kind = "message"
                  THEN Append(received, SubSeq(args[1], 1, args[2]))
                  ELSE received
  /\ last_state' = IF kind = "state" THEN args[1] ELSE last_state
  /\ state_callback_' = IF kind = "state" THEN NULL ELSE state_callback_
  /\ message_callback_' = IF kind = "message" THEN NULL ELSE message_callback_
  /\ buffering_callback_' =
       IF kind = "buffering" THEN NULL ELSE buffering_callback_
  /\ UNCHANGED <<mutex, data_channel_, found, dropped, ncalls>>
\* the call of the slot as it is at this moment
Invoke(t, kind, callback, args) ==
  /\ pc[t] = "call"
  /\ Goto(t, "in_cb")
  /\ frame' = [frame EXCEPT ![t].cb = callback, ![t].args = args,
                            ![t].n = @ + 1]
  /\ invoked' = [invoked EXCEPT ![kind] = @ + 1]
  /\ entered' = IF kind = "message" THEN Without(entered, t) ELSE entered
  /\ received' = IF kind = "message"
                  THEN Append(received, SubSeq(args[1], 1, args[2]))
                  ELSE received
  /\ last_state' = IF kind = "state" THEN args[1] ELSE last_state
  /\ UNCHANGED <<mutex, slots, data_channel_, found, dropped, ncalls>>

(* ---- OnStateChange ---- *)
OnStateChange_Test(t) ==
  /\ frame[t].op = "OnStateChange"
  /\ Test(t, "state", state_callback_, "query")

OnStateChange_Query(t) ==
  /\ pc[t] = "query"
  /\ frame[t].op = "OnStateChange"
  /\ frame' = [frame EXCEPT ![t].q =
                 <<data_channel_.state,
                   apiStateFromRtcState(data_channel_.state)>>]
  /\ Goto(t, "call")
  /\ UNCHANGED <<mutex, slots, data_channel_, invoked, found, dropped, ncalls,
                 msglog, last_state>>

OnStateChange_Invoke(t) ==
  /\ frame[t].op = "OnStateChange"
  /\ Invoke(t, "state", state_callback_,
            StateArgs(frame[t].q[2], data_channel_.id))

(* ---- OnMessage ---- *)
OnMessage_Test(t) ==
  /\ frame[t].op = "OnMessage"
  /\ Test(t, "message", message_callback_, "call")

OnMessage_Invoke(t) ==
  /\ frame[t].op = "OnMessage"
  /\ Invoke(t, "message", message_callback_, MessageArgs(frame[t].arg))

(* ---- OnBufferedAmountChange ---- *)
OnBufferedAmountChange_Test(t) ==
  /\ frame[t].op = "OnBufferedAmountChange"
  /\ Test(t, "buffering", buffering_callback_, "query")

OnBufferedAmountChange_Query(t) ==
  /\ pc[t] = "query"
  /\ frame[t].op = "OnBufferedAmountChange"
  /\ frame' = [frame EXCEPT ![t].q = <<data_channel_.buffered_amount>>]
  /\ Goto(t, "call")
  /\ UNCHANGED <<mutex, slots, data_channel_, invoked, found, dropped, ncalls,
                 msglog, last_state>>

OnBufferedAmountChange_Invoke(t) ==
  /\ frame[t].op = "OnBufferedAmountChange"
  /\ Invoke(t, "buffering", buffering_callback_,
            BufferingArgs(frame[t].arg[1], frame[t].q[1]))

(* ---- the listener returns; the handler returns ---- *)
CallbackReturn(t) ==
  /\ pc[t] = "in_cb"
  /\ Goto(t, "unlock")
  /\ UNCHANGED <<mutex, slots, data_channel_, frame, invoked, found, dropped, ncalls,
                 msglog, last_state>>

Unlock(t) ==
  /\ pc[t] = "unlock"
  /\ IsDelivery(t)
  /\ UnlockGuard(t)
  /\ Goto(t, "idle")
  /\ frame' = [frame EXCEPT ![t] = NoFrame]
  /\ UNCHANGED <<slots, data_channel_, invoked, found, dropped, ncalls,
                 msglog, last_state>>

(* ---- registration: set or clear one slot under the same mutex ---- *)
SetCallback_Call(t, kind, callback) ==
  /\ t \in AppThreads
  /\ Call(t, "SetCallback", <<kind, callback>>)

SetCallback_Lock(t) ==
  /\ pc[t] = "lock"
  /\ frame[t].op = "SetCallback"
  /\ mutex = NoThread
  /\ mutex' = t
  /\ Goto(t, "write")
  /\ UNCHANGED <<slots, data_channel_, frame, invoked, found, dropped, ncalls,
                 msglog, last_state>>

SetCallback_Write(t) ==
  /\ pc[t] = "write"
  /\ LET kind == frame[t].arg[1]
         callback == frame[t].arg[2]
     IN /\ state_callback_' =
             IF kind = "state" THEN callback ELSE state_callback_
        /\ message_callback_' =
             IF kind = "message" THEN callback ELSE message_callback_
        /\ buffering_callback_' =
             IF kind = "buffering" THEN callback ELSE buffering_callback_
  /\ Goto(t, "unlock")
  /\ UNCHANGED <<mutex, data_channel_, frame, invoked, found, dropped, ncalls,
                 msglog, last_state>>

SetCallback_Unlock(t) ==
  /\ pc[t] = "unlock"
  /\ frame[t].op = "SetCallback"
  /\ mutex' = NoThread
  /\ Goto(t, "idle")
  /\ frame' = [frame EXCEPT ![t] = NoFrame]
  /\ UNCHANGED <<slots, data_channel_, invoked, found, dropped, ncalls,
                 msglog, last_state>>

(* ---- the channel moves underneath the observer ---- *)
NextState(s) ==
  CASE s = "kConnecting" -> "kOpen"
    [] s = "kOpen" -> "kClosing"
    [] s = "kClosing" -> "kClosed"
    [] OTHER -> "kClosed"

Channel_Advance ==
  /\ data_channel_.state # "kClosed"
  /\ data_channel_' =
       [data_channel_ EXCEPT !.state = NextState(data_channel_.state)]
  /\ UNCHANGED <<mutex, slots, pc, frame, invoked, found, dropped, ncalls,
                 msglog, last_state>>

Channel_Buffered(amount) ==
  /\ amount # data_channel_.buffered_amount
  /\ data_channel_' = [data_channel_ EXCEPT !.buffered_amount = amount]
  /\ UNCHANGED <<mutex, slots, pc, frame, invoked, found, dropped, ncalls,
                 msglog, last_state>>

Next ==
  \/ \E t \in DeliveryThreads : OnStateChange_Call(t)
  \/ \E t \in DeliveryThreads, buffer \in Buffers : OnMessage_Call(t, buffer)
  \/ \E t \in DeliveryThreads, previous_amount \in Amounts :
       OnBufferedAmountChange_Call(t, previous_amount)
  \/ \E t \in DeliveryThreads : Lock(t)
  \/ \E t \in DeliveryThreads : OnStateChange_Test(t)
  \/ \E t \in DeliveryThreads : OnStateChange_Query(t)
  \/ \E t \in DeliveryThreads : OnStateChange_Invoke(t)
  \/ \E t \in DeliveryThreads : OnMessage_Test(t)
  \/ \E t \in DeliveryThreads : OnMessage_Invoke(t)
  \/ \E t \in DeliveryThreads : OnBufferedAmountChange_Test(t)
  \/ \E t \in DeliveryThreads : OnBufferedAmountChange_Query(t)
  \/ \E t \in DeliveryThreads : OnBufferedAmountChange_Invoke(t)
  \/ \E t \in DeliveryThreads : CallbackReturn(t)
  \/ \E t \in DeliveryThreads : Unlock(t)
  \/ \E t \in AppThreads, kind \in Kinds, callback \in Slots :
       SetCallback_Call(t, kind, callback)
  \/ \E t \in AppThreads : SetCallback_Lock(t)
  \/ \E t \in AppThreads : SetCallback_Write(t)
  \/ \E t \in AppThreads : SetCallback_Unlock(t)
  \/ Channel_Advance
  \/ \E amount \in Amounts : Channel_Buffered(amount)

Spec == Init /\ [][Next]_vars

\* every step a thread takes once it has been called; a delivery's steps
\* include the listener's return
Step(t) ==
  \/ Lock(t)
  \/ OnStateChange_Test(t) \/ OnStateChange_Query(t) \/ OnStateChange_Invoke(t)
  \/ OnMessage_Test(t) \/ OnMessage_Invoke(t)
  \/ OnBufferedAmountChange_Test(t) \/ OnBufferedAmountChange_Query(t)
  \/ OnBufferedAmountChange_Invoke(t)
  \/ CallbackReturn(t)
  \/ Unlock(t)
  \/ SetCallback_Lock(t) \/ SetCallback_Write(t) \/ SetCallback_Unlock(t)

\* A runnable thread is scheduled and every listener returns.  The number of
\* calls is finite (MaxCalls), so weak fairness is enough for a waiter to get
\* the mutex: no other thread can take it infinitely often.
FairSpec == Spec /\ \A t \in Threads : WF_vars(Step(t))

(* ---- the observer's contract ---- *)
KindOf(t) ==
  CASE frame[t].op = "OnStateChange" -> "state"
    [] frame[t].op = "OnMessage" -> "message"
    [] frame[t].op = "OnBufferedAmountChange" -> "buffering"
    [] OTHER -> "none"

SlotOfKind(kind) ==
  CASE kind = "state" -> state_callback_
    [] kind = "message" -> message_callback_
    [] kind = "buffering" -> buffering_callback_
    [] OTHER -> NULL

InCallback(t) == pc[t] = "in_cb"
\* the handler is past a test that found a callback
Found(t) ==
  /\ IsDelivery(t)
  /\ pc[t] \in {"query", "call", "in_cb", "unlock"}
  /\ frame[t].tested # NULL
\* the handler has called the listener (it is in it, or it has returned)
Called(t) == IsDelivery(t) /\ pc[t] \in {"in_cb", "unlock"} /\ frame[t].n > 0

\* C1: at most one registered callback, of any kind, is executing at any
\* moment: two deliveries to the observer never overlap.
C1_OneDeliveryAtATime ==
  Cardinality({t \in Threads : InCallback(t)}) <= 1
\* a listener is running while the other delivery thread has been called
C1_Witness ==
  \E t, u \in DeliveryThreads :
    /\ t # u
    /\ InCallback(t)
    /\ pc[u] = "lock"

\* C2: while a delivery's callback has started and not returned, no slot
\* changes: a registration called meanwhile takes effect only afterwards.
C2_SwapWaitsForDelivery ==
  [][(\E t \in Threads : InCallback(t)) => UNCHANGED slots]_vars
\* a registration has been called and waits while a listener is running
C2_Witness ==
  \E t \in DeliveryThreads, a \in AppThreads :
    /\ InCallback(t)
    /\ pc[a] = "lock"
    /\ frame[a].arg[1] = KindOf(t)
    /\ frame[a].arg[2] # frame[t].cb

\* C3: from the test of a slot to the return of the callback the slot holds
\* what the test found, and the callback invoked is that one, never an empty
\* slot.
C3_TestAndInvokeAtomic ==
  \A t \in DeliveryThreads :
    /\ (pc[t] \in {"query", "call"} =>
          /\ frame[t].tested # NULL
          /\ SlotOfKind(KindOf(t)) = frame[t].tested)
    /\ (InCallback(t) =>
          /\ frame[t].cb # NULL
          /\ frame[t].cb = frame[t].tested
          /\ SlotOfKind(KindOf(t)) = frame[t].cb)
\* a delivery has tested its slot, and a registration that would clear or
\* change that slot is waiting
C3_Witness ==
  \E t \in DeliveryThreads, a \in AppThreads :
    /\ pc[t] = "call"
    /\ frame[t].tested # NULL
    /\ pc[a] = "lock"
    /\ frame[a].arg[1] = KindOf(t)
    /\ frame[a].arg[2] = NULL

\* C4: a delivery whose test found its slot empty goes straight to its
\* return: it queries nothing of the channel and invokes no callback,
\* whatever the other two slots hold.
C4_EmptySlotInvokesNothing ==
  \A t \in DeliveryThreads :
    (/\ IsDelivery(t)
     /\ pc[t] \in {"query", "call", "in_cb", "unlock"}
     /\ frame[t].tested = NULL)
    => /\ pc[t] = "unlock"
       /\ frame[t].n = 0
       /\ frame[t].cb = NULL
       /\ frame[t].args = <<>>
       /\ frame[t].q = <<>>
\* a delivery returns from an empty slot while the other two are registered
C4_Witness ==
  \E t \in DeliveryThreads :
    /\ IsDelivery(t)
    /\ pc[t] = "unlock"
    /\ frame[t].tested = NULL
    /\ \A k \in Kinds \ {KindOf(t)} : SlotOfKind(k) # NULL

C6_StateCallbackArgs ==
  \A t \in DeliveryThreads :
    /\ (Found(t) /\ frame[t].op = "OnStateChange" /\ pc[t] \in {"in_cb", "unlock"}
          => frame[t].n = 1)
    /\ (Called(t) /\ frame[t].op = "OnStateChange"
          => /\ frame[t].n = 1
             /\ frame[t].args =
                  <<ApiDataState[frame[t].q[1]], data_channel_.id>>)
\* the listener runs with (Open, 7)
C6_Witness ==
  \E t \in DeliveryThreads :
    /\ InCallback(t)
    /\ frame[t].op = "OnStateChange"
    /\ frame[t].q[1] = "kOpen"
    /\ frame[t].args = <<1, 7>>

\* C7: an OnMessage that found a message callback invokes it exactly once,
\* with a length equal to the buffer's size and, in that length, the
\* buffer's bytes.
C7_MessageCallbackArgs ==
  \A t \in DeliveryThreads :
    /\ (Found(t) /\ frame[t].op = "OnMessage" /\ pc[t] \in {"in_cb", "unlock"}
          => frame[t].n = 1)
    /\ (Called(t) /\ frame[t].op = "OnMessage"
          => /\ frame[t].n = 1
             /\ frame[t].args[2] = Len(frame[t].arg)
             /\ SubSeq(frame[t].args[1], 1, frame[t].args[2]) = frame[t].arg)
\* the listener runs with a buffer of the longest size
C7_Witness ==
  \E t \in DeliveryThreads :
    /\ InCallback(t)
    /\ frame[t].op = "OnMessage"
    /\ Len(frame[t].arg) = MaxBufLen
    /\ frame[t].args[2] = MaxBufLen

\* C8: an OnBufferedAmountChange that found a buffering callback invokes it
\* exactly once with (previous amount as passed, the amount the channel
\* reported to the handler's query, 16777216).
C8_BufferingCallbackArgs ==
  \A t \in DeliveryThreads :
    /\ (Found(t) /\ frame[t].op = "OnBufferedAmountChange"
          /\ pc[t] \in {"in_cb", "unlock"}
          => frame[t].n = 1)
    /\ (Called(t) /\ frame[t].op = "OnBufferedAmountChange"
          => /\ frame[t].n = 1
             /\ frame[t].args = <<frame[t].arg[1], frame[t].q[1], 16777216>>)
\* the listener runs with a current amount that differs from the previous
\* one, in a channel that is no longer connecting
C8_Witness ==
  \E t \in DeliveryThreads :
    /\ InCallback(t)
    /\ frame[t].op = "OnBufferedAmountChange"
    /\ frame[t].arg[1] # frame[t].q[1]
    /\ data_channel_.state # "kConnecting"
    /\ frame[t].args[3] = 16777216

\* C9: the cast maps each library state to the public state of the same
\* name and the same integer, and is a bijection of the four states.
C9_StateTranslationPinned ==
  /\ \A r \in StateNames :
       /\ apiStateFromRtcState(r) = r
       /\ ApiDataState[apiStateFromRtcState(r)] = RtcDataState[r]
  /\ \A a \in StateNames : \E r \in StateNames : apiStateFromRtcState(r) = a
  /\ \A r1, r2 \in StateNames :
       apiStateFromRtcState(r1) = apiStateFromRtcState(r2) => r1 = r2
  /\ \A t \in DeliveryThreads :
       (frame[t].op = "OnStateChange" /\ pc[t] \in {"call", "in_cb", "unlock"}
        /\ frame[t].tested # NULL)
       => /\ frame[t].q[2] = frame[t].q[1]
          /\ ApiDataState[frame[t].q[2]] = RtcDataState[frame[t].q[1]]
\* a handler has translated the last of the four states
C9_Witness ==
  \E t \in DeliveryThreads :
    /\ frame[t].op = "OnStateChange"
    /\ pc[t] = "call"
    /\ frame[t].q = <<"kClosed", "kClosed">>

\* C10: the invocations of a kind are the deliveries of that kind that found
\* the slot non-empty (one of them may hold the mutex between its test and
\* its call); a dropped event is never delivered later.
C10_DroppedEventsAreLost ==
  \A k \in Kinds :
    invoked[k] + Cardinality({t \in DeliveryThreads :
                                KindOf(t) = k /\ pc[t] \in {"query", "call"}})
      = found[k]
\* an event was dropped, a callback of its kind is registered now, every
\* call has returned, and nothing of that kind was ever delivered
C10_Witness ==
  \E k \in Kinds :
    /\ dropped[k] > 0
    /\ SlotOfKind(k) # NULL
    /\ invoked[k] = 0
    /\ \A t \in Threads : pc[t] = "idle"

\* C11: the message callback is handed payloads one at a time, each appended
\* after all earlier ones, by the OnMessage call that acquired the mutex
\* first among those still to invoke; a call that has invoked holds the
\* latest payload until it returns, so a call that returned before another
\* started comes first, and nothing is duplicated or reordered.
C11_MessagesInDeliveryOrder ==
  /\ [](/\ Len(received) = invoked["message"]
        /\ \A t \in DeliveryThreads :
             (Called(t) /\ frame[t].op = "OnMessage")
             => /\ received # <<>>
                /\ received[Len(received)] = frame[t].arg)
  /\ [][received' # received =>
          \E t \in DeliveryThreads :
            /\ frame[t].op = "OnMessage"
            /\ pc[t] = "call"
            /\ pc'[t] = "in_cb"
            /\ entered # <<>>
            /\ Head(entered) = t
            /\ received' = Append(received, frame[t].arg)]_vars
\* the callback is being handed a second payload, different from the first
C11_Witness ==
  /\ Len(received) = 2
  /\ received[1] # received[2]
  /\ \E t \in DeliveryThreads : InCallback(t) /\ frame[t].op = "OnMessage"

\* C12: no step of a delivery changes the channel or any of the three slots,
\* and a delivery that returns leaves the mutex free and keeps nothing of
\* its call: the observer is as it was before the call.
C12_DeliveryChangesNothing ==
  [][\A t \in DeliveryThreads :
       pc'[t] # pc[t] =>
         /\ UNCHANGED <<data_channel_, slots>>
         /\ (pc'[t] = "idle" => mutex' = NoThread /\ frame'[t] = NoFrame)]_vars
\* a listener has been called and has returned, and it is still registered,
\* in a channel that has moved since the observer was made
C12_Witness ==
  \E t \in DeliveryThreads :
    /\ pc[t] = "unlock"
    /\ frame[t].n = 1
    /\ SlotOfKind(KindOf(t)) = frame[t].cb
    /\ data_channel_.state = "kClosing"
    /\ data_channel_.buffered_amount = 250

\* C13: with a channel that only advances, the states handed to the state
\* callback never go backwards: each invocation hands over a state at or
\* after the one handed over before (the same again, or some skipped).
C13_StatesNeverGoBack ==
  /\ [](\A t \in DeliveryThreads :
          (Called(t) /\ frame[t].op = "OnStateChange")
          => last_state = frame[t].args[1])
  /\ [][last_state' >= last_state]_vars
\* Open was handed over, and a later call has read Closed and is about to
\* hand it over, Closing skipped
C13_Witness ==
  \E t \in DeliveryThreads :
    /\ frame[t].op = "OnStateChange"
    /\ pc[t] = "call"
    /\ frame[t].q[1] = "kClosed"
    /\ last_state = 1

\* the channel is Closed and the OnStateChange call of t, made to signal it
\* or still under way from before, has yet to read the channel's state
AwaitsClosed(t) ==
  /\ frame[t].op = "OnStateChange"
  /\ data_channel_.state = "kClosed"
  /\ pc[t] \in {"lock", "test", "query"}

====
